---- MODULE Spec2Model ----
(***************************************************************************)
(* vaultflow: the ledger state machine of src/main.go.                     *)
(*                                                                         *)
(* StateMachine holds a map of balances (sm.accounts), a slice of          *)
(* snapshots (sm.history) and one sync.Mutex (sm.mu).  Go maps are         *)
(* reference values, so the model keeps a heap of map objects and stores   *)
(* references in accounts and history: aliasing between the live table and *)
(* a snapshot is something the model can exhibit.  Balances are Go ints,   *)
(* modelled as IntWidth-bit two's complement.                              *)
(*                                                                         *)
(* Every goroutine that calls an operation is a process.  A call is split  *)
(* at the points where the scheduler can interleave goroutines: blocking   *)
(* on sm.mu.Lock(), acquiring it, saveState, validation, each map write,   *)
(* and the deferred sm.mu.Unlock() that completes the return.              *)
(***************************************************************************)
EXTENDS Integers, Sequences, FiniteSets, TLC

(***************************************************************************)
(* Bounds of the model.                                                    *)
(***************************************************************************)
\* width of the modelled int (Go's int is 64 bits wide on the usual targets)
IntWidth == 12
\* concurrent callers of Spec
NumProcs == 2
\* calls issued in one behaviour of Spec
MaxOps == 3
\* Rollback calls the main goroutine issues in ScenarioSpec
MaxRollbacks == 5

(***************************************************************************)
(* Go int arithmetic: + and - wrap around silently.                        *)
(***************************************************************************)
MaxInt == 2^(IntWidth - 1) - 1
MinInt == -(2^(IntWidth - 1))
Wrap(x) == ((x - MinInt) % (2^IntWidth)) + MinInt

(***************************************************************************)
(* Go map operations.  A map is a function whose DOMAIN is its key set.    *)
(***************************************************************************)
\* m[k] read: the zero value for a missing key
MapGet(m, k) == IF k \in DOMAIN m THEN m[k] ELSE 0
\* m[k] = v: inserts the key when it is missing
MapSet(m, k, v) == [x \in DOMAIN m \cup {k} |-> IF x = k THEN v ELSE m[x]]
\* m[k] += d
MapAdd(m, k, d) == MapSet(m, k, Wrap(MapGet(m, k) + d))
\* m[k] -= d
MapSub(m, k, d) == MapSet(m, k, Wrap(MapGet(m, k) - d))

(***************************************************************************)
(* The errors the operations return (one per fmt.Errorf), and nil.         *)
(***************************************************************************)
NoErr == "nil"
ErrDepositAccount == "invalid account to deposit to"
ErrWithdrawAccount == "invalid account to withdraw from"
ErrWithdrawBalance == "insufficient balance"
ErrSender == "invalid sender account"
ErrReceiver == "invalid receiver account"
ErrTransferBalance == "insufficient balance to transfer from"
ErrNothing == "nothing to rollback"

(***************************************************************************)
(* Calls: the operation and its arguments.                                 *)
(***************************************************************************)
NoId == ""
DepositCall(id, amount) == [op |-> "Deposit", id |-> id, to |-> NoId, amount |-> amount]
WithdrawCall(id, amount) == [op |-> "Withdraw", id |-> id, to |-> NoId, amount |-> amount]
TransferCall(from, to, amount) == [op |-> "Transfer", id |-> from, to |-> to, amount |-> amount]
RollbackCall == [op |-> "Rollback", id |-> NoId, to |-> NoId, amount |-> 0]
NoCall == [op |-> "none", id |-> NoId, to |-> NoId, amount |-> 0]

\* the tables the repository constructs a StateMachine with
RollbackTestAccounts == ("acc1" :> 1000) @@ ("acc2" :> 500)
ScenarioAccounts == ("acc1" :> 1000) @@ ("acc2" :> 500) @@ ("acc3" :> 300)

\* the identifiers and amounts callers of Spec pass
Ids == {"acc1", "acc2", "invalid"}
Amounts == {700, -MaxInt}
Calls ==
    {DepositCall(id, a) : id \in Ids, a \in Amounts}
    \cup {WithdrawCall(id, a) : id \in Ids, a \in Amounts}
    \cup {TransferCall(f, t, a) : f \in Ids, t \in Ids, a \in Amounts}
    \cup {RollbackCall}

\* the four actions of the table test "Concurrent deposits and withdrawals"
Script ==
    << DepositCall("acc1", 200), WithdrawCall("acc2", 100),
       TransferCall("acc1", "acc3", 150), WithdrawCall("acc3", 500) >>
Workers == 1..Len(Script)
MainProc == Len(Script) + 1

VARIABLES
    heap,       \* the map objects: reference -> map
    accounts,   \* sm.accounts: a reference
    history,    \* sm.history: a sequence of references
    mu,         \* sm.mu: 0 when free, else the process that holds it
    pc,         \* where each process is in its call
    cur,        \* the call each process is executing
    err,        \* the error each process is about to return
    pre,        \* table and history length when the process acquired sm.mu
    last,       \* the call that returned most recently, and what it returned
    serial,     \* number of acquisitions of sm.mu so far
    order,      \* ScenarioSpec: the scripted goroutines in the order they acquired sm.mu
    net,        \* deposits minus withdrawals that succeeded, while no Rollback ran
    rolled,     \* a Rollback has acquired sm.mu
    undo,       \* the pre-call tables of the returned mutating calls no Rollback has undone
    seq         \* table and history after running the returned calls one at a time

vars == << heap, accounts, history, mu, pc, cur, err, pre, last, serial, order, net, rolled, undo, seq >>

Procs == DOMAIN pc
Range(s) == {s[i] : i \in DOMAIN s}
\* the live table, as a value
Table == heap[accounts]
NoPre == [table |-> << >>, hlen |-> 0]
NoLast == [op |-> "none", err |-> NoErr, before |-> << >>]

InitWith(table, procs) ==
    /\ heap = (1 :> table)
    /\ accounts = 1
    /\ history = << >>
    /\ mu = 0
    /\ pc = [p \in procs |-> "idle"]
    /\ cur = [p \in procs |-> NoCall]
    /\ err = [p \in procs |-> NoErr]
    /\ pre = [p \in procs |-> NoPre]
    /\ last = NoLast
    /\ serial = 0
    /\ order = << >>
    /\ net = 0
    /\ rolled = FALSE
    /\ undo = << >>
    /\ seq = [table |-> table, hist |-> << >>]

Init == InitWith(RollbackTestAccounts, 1..NumProcs)

(***************************************************************************)
(* A goroutine calls an operation and blocks on sm.mu.Lock().              *)
(***************************************************************************)
Invoke(p) ==
    /\ pc[p] = "idle"
    /\ pc' = [pc EXCEPT ![p] = "lock"]
    /\ UNCHANGED << heap, accounts, history, mu, cur, err, pre, last, serial, order, net, rolled, undo, seq >>

Call(p) ==
    /\ serial + Cardinality({q \in Procs : pc[q] = "lock"}) < MaxOps
    /\ Invoke(p)

(***************************************************************************)
(* sm.mu.Lock() returns.  The arguments of the call are inputs that do not *)
(* depend on the state; they are drawn here.                               *)
(***************************************************************************)
\* Lock without mutual exclusion: the guard is taken even when it is held
LockNoMutex(p, c) ==
    /\ pc[p] = "lock"
    /\ mu' = p
    /\ cur' = [cur EXCEPT ![p] = c]
    /\ pc' = [pc EXCEPT ![p] = IF c.op = "Rollback" THEN "rollback" ELSE "save"]
    /\ pre' = [pre EXCEPT ![p] = [table |-> Table, hlen |-> Len(history)]]
    /\ serial' = serial + 1
    /\ rolled' = (rolled \/ c.op = "Rollback")
    /\ net' = IF c.op = "Rollback" THEN 0 ELSE net
    /\ UNCHANGED << heap, accounts, history, err, last, undo, seq >>

Lock(p, c) ==
    /\ pc[p] = "lock"
    /\ mu = 0
    /\ mu' = p
    /\ cur' = [cur EXCEPT ![p] = c]
    /\ pc' = [pc EXCEPT ![p] = IF c.op = "Rollback" THEN "rollback" ELSE "save"]
    /\ pre' = [pre EXCEPT ![p] = [table |-> Table, hlen |-> Len(history)]]
    /\ serial' = serial + 1
    /\ rolled' = (rolled \/ c.op = "Rollback")
    /\ net' = IF c.op = "Rollback" THEN 0 ELSE net
    /\ UNCHANGED << heap, accounts, history, err, last, undo, seq >>

\* a caller of Spec acquires the guard for any call of Calls
CallerLock(p) ==
    /\ \E c \in Calls : Lock(p, c)
    /\ UNCHANGED order

(***************************************************************************)
(* saveState: copy the live map into a new map and append it to history.   *)
(***************************************************************************)
NewRef == CHOOSE r \in 1..(Cardinality(DOMAIN heap) + 1) :
              /\ r \notin DOMAIN heap
              /\ \A q \in 1..(r - 1) : q \in DOMAIN heap

\* saveState without the copy: the live map itself is appended
saveStateAlias(p) ==
    /\ pc[p] = "save"
    /\ history' = Append(history, accounts)
    /\ pc' = [pc EXCEPT ![p] = "check"]
    /\ UNCHANGED << heap, accounts, mu, cur, err, pre, last, serial, order, net, rolled, undo, seq >>

saveState(p) ==
    /\ pc[p] = "save"
    /\ heap' = heap @@ (NewRef :> Table)
    /\ history' = Append(history, NewRef)
    /\ pc' = [pc EXCEPT ![p] = "check"]
    /\ UNCHANGED << accounts, mu, cur, err, pre, last, serial, order, net, rolled, undo, seq >>

(***************************************************************************)
(* The validation each operation performs after saveState, as the error it *)
(* returns (NoErr when every check passes).                                *)
(***************************************************************************)
\* Deposit without the existence check
DepositErrNone(m, c) == NoErr

DepositErr(m, c) ==
    IF c.id \notin DOMAIN m THEN ErrDepositAccount ELSE NoErr

\* Withdraw without the balance check
WithdrawErrNoBalance(m, c) ==
    IF c.id \notin DOMAIN m THEN ErrWithdrawAccount ELSE NoErr

WithdrawErr(m, c) ==
    IF c.id \notin DOMAIN m THEN ErrWithdrawAccount
    ELSE IF m[c.id] < c.amount THEN ErrWithdrawBalance
    ELSE NoErr

\* Transfer that checks the sender's balance before the receiver
TransferErrBalanceFirst(m, c) ==
    IF c.id \notin DOMAIN m THEN ErrSender
    ELSE IF m[c.id] < c.amount THEN ErrTransferBalance
    ELSE IF c.to \notin DOMAIN m THEN ErrReceiver
    ELSE NoErr

\* Transfer without the receiver check
TransferErrNoReceiver(m, c) ==
    IF c.id \notin DOMAIN m THEN ErrSender
    ELSE IF m[c.id] < c.amount THEN ErrTransferBalance
    ELSE NoErr

TransferErr(m, c) ==
    IF c.id \notin DOMAIN m THEN ErrSender
    ELSE IF c.to \notin DOMAIN m THEN ErrReceiver
    ELSE IF m[c.id] < c.amount THEN ErrTransferBalance
    ELSE NoErr

\* a failed check that takes its snapshot back out of history
CheckedDropSnapshot(p, e) ==
    /\ err' = [err EXCEPT ![p] = e]
    /\ pc' = [pc EXCEPT ![p] = IF e = NoErr THEN "apply" ELSE "unlock"]
    /\ history' = IF e = NoErr THEN history ELSE SubSeq(history, 1, Len(history) - 1)
    /\ heap' = [r \in (DOMAIN heap) \cap ({accounts} \cup Range(history')) |-> heap[r]]
    /\ UNCHANGED << accounts, mu, cur, pre, last, serial, order, net, rolled, undo, seq >>

\* a failed check returns at once (the deferred Unlock is what remains)
Checked(p, e) ==
    /\ err' = [err EXCEPT ![p] = e]
    /\ pc' = [pc EXCEPT ![p] = IF e = NoErr THEN "apply" ELSE "unlock"]
    /\ UNCHANGED << heap, accounts, history, mu, cur, pre, last, serial, order, net, rolled, undo, seq >>

(***************************************************************************)
(* Deposit                                                                 *)
(***************************************************************************)
DepositCheck(p) ==
    /\ pc[p] = "check"
    /\ cur[p].op = "Deposit"
    /\ Checked(p, DepositErr(Table, cur[p]))

DepositAdd(p) ==
    /\ pc[p] = "apply"
    /\ cur[p].op = "Deposit"
    /\ heap' = [heap EXCEPT ![accounts] = MapAdd(@, cur[p].id, cur[p].amount)]
    /\ net' = IF rolled THEN 0 ELSE net + cur[p].amount
    /\ pc' = [pc EXCEPT ![p] = "unlock"]
    /\ UNCHANGED << accounts, history, mu, cur, err, pre, last, serial, order, rolled, undo, seq >>

(***************************************************************************)
(* Withdraw                                                                *)
(***************************************************************************)
WithdrawCheck(p) ==
    /\ pc[p] = "check"
    /\ cur[p].op = "Withdraw"
    /\ Checked(p, WithdrawErr(Table, cur[p]))

WithdrawSub(p) ==
    /\ pc[p] = "apply"
    /\ cur[p].op = "Withdraw"
    /\ heap' = [heap EXCEPT ![accounts] = MapSub(@, cur[p].id, cur[p].amount)]
    /\ net' = IF rolled THEN 0 ELSE net - cur[p].amount
    /\ pc' = [pc EXCEPT ![p] = "unlock"]
    /\ UNCHANGED << accounts, history, mu, cur, err, pre, last, serial, order, rolled, undo, seq >>

(***************************************************************************)
(* Transfer: the debit and the credit are two map writes.                  *)
(***************************************************************************)
TransferCheck(p) ==
    /\ pc[p] = "check"
    /\ cur[p].op = "Transfer"
    /\ Checked(p, TransferErr(Table, cur[p]))

TransferDebit(p) ==
    /\ pc[p] = "apply"
    /\ cur[p].op = "Transfer"
    /\ heap' = [heap EXCEPT ![accounts] = MapSub(@, cur[p].id, cur[p].amount)]
    /\ pc' = [pc EXCEPT ![p] = "credit"]
    /\ UNCHANGED << accounts, history, mu, cur, err, pre, last, serial, order, net, rolled, undo, seq >>

\* a credit computed from the receiver's balance as it was before the debit
TransferCreditStale(p) ==
    /\ pc[p] = "credit"
    /\ heap' = [heap EXCEPT ![accounts] =
                   MapSet(@, cur[p].to, Wrap(MapGet(pre[p].table, cur[p].to) + cur[p].amount))]
    /\ pc' = [pc EXCEPT ![p] = "unlock"]
    /\ UNCHANGED << accounts, history, mu, cur, err, pre, last, serial, order, net, rolled, undo, seq >>

TransferCredit(p) ==
    /\ pc[p] = "credit"
    /\ heap' = [heap EXCEPT ![accounts] = MapAdd(@, cur[p].to, cur[p].amount)]
    /\ pc' = [pc EXCEPT ![p] = "unlock"]
    /\ UNCHANGED << accounts, history, mu, cur, err, pre, last, serial, order, net, rolled, undo, seq >>

(***************************************************************************)
(* Rollback: the last snapshot becomes the live map (the same map object,  *)
(* not a copy) and the slice is cut by one.  A map object that neither     *)
(* sm.accounts nor sm.history refers to any more is garbage.               *)
(***************************************************************************)
Collect(h, acc, hist) == [r \in (DOMAIN h) \cap ({acc} \cup Range(hist)) |-> h[r]]

\* Rollback that restores the last snapshot but leaves it in history
RollbackKeep(p) ==
    /\ pc[p] = "rollback"
    /\ LET historyLength == Len(history) IN
        IF historyLength = 0
        THEN /\ err' = [err EXCEPT ![p] = ErrNothing]
             /\ UNCHANGED << heap, accounts, history >>
        ELSE /\ accounts' = history[historyLength]
             /\ history' = history
             /\ heap' = Collect(heap, accounts', history')
             /\ err' = [err EXCEPT ![p] = NoErr]
    /\ pc' = [pc EXCEPT ![p] = "unlock"]
    /\ UNCHANGED << mu, cur, pre, last, serial, order, net, rolled, undo, seq >>

\* Rollback that treats an empty history as nothing to do and returns nil
RollbackNoEmptyCheck(p) ==
    /\ pc[p] = "rollback"
    /\ LET historyLength == Len(history) IN
        IF historyLength = 0
        THEN /\ err' = [err EXCEPT ![p] = NoErr]
             /\ UNCHANGED << heap, accounts, history >>
        ELSE /\ accounts' = history[historyLength]
             /\ history' = SubSeq(history, 1, historyLength - 1)
             /\ heap' = Collect(heap, accounts', history')
             /\ err' = [err EXCEPT ![p] = NoErr]
    /\ pc' = [pc EXCEPT ![p] = "unlock"]
    /\ UNCHANGED << mu, cur, pre, last, serial, order, net, rolled, undo, seq >>

Rollback(p) ==
    /\ pc[p] = "rollback"
    /\ LET historyLength == Len(history) IN
        IF historyLength = 0
        THEN /\ err' = [err EXCEPT ![p] = ErrNothing]
             /\ UNCHANGED << heap, accounts, history >>
        ELSE /\ accounts' = history[historyLength]
             /\ history' = SubSeq(history, 1, historyLength - 1)
             /\ heap' = Collect(heap, accounts', history')
             /\ err' = [err EXCEPT ![p] = NoErr]
    /\ pc' = [pc EXCEPT ![p] = "unlock"]
    /\ UNCHANGED << mu, cur, pre, last, serial, order, net, rolled, undo, seq >>

(***************************************************************************)
(* The four operations run one at a time, from Lock to return, on a table  *)
(* and a history of tables held by value: what a single caller gets.  Each *)
(* yields the state after the call and the error returned.                 *)
(***************************************************************************)
SeqSaved(s) == [table |-> s.table, hist |-> Append(s.hist, s.table)]

SeqDeposit(s, c) ==
    LET e == DepositErr(s.table, c) IN
    [ state |-> IF e # NoErr THEN SeqSaved(s)
                ELSE [SeqSaved(s) EXCEPT !.table = MapAdd(@, c.id, c.amount)],
      err |-> e ]

SeqWithdraw(s, c) ==
    LET e == WithdrawErr(s.table, c) IN
    [ state |-> IF e # NoErr THEN SeqSaved(s)
                ELSE [SeqSaved(s) EXCEPT !.table = MapSub(@, c.id, c.amount)],
      err |-> e ]

SeqTransfer(s, c) ==
    LET e == TransferErr(s.table, c) IN
    [ state |-> IF e # NoErr THEN SeqSaved(s)
                ELSE [SeqSaved(s) EXCEPT
                        !.table = MapAdd(MapSub(@, c.id, c.amount), c.to, c.amount)],
      err |-> e ]

SeqRollback(s) ==
    LET historyLength == Len(s.hist) IN
    IF historyLength = 0 THEN [state |-> s, err |-> ErrNothing]
    ELSE [ state |-> [table |-> s.hist[historyLength],
                      hist |-> SubSeq(s.hist, 1, historyLength - 1)],
           err |-> NoErr ]

SeqRun(s, c) ==
    IF c.op = "Deposit" THEN SeqDeposit(s, c)
    ELSE IF c.op = "Withdraw" THEN SeqWithdraw(s, c)
    ELSE IF c.op = "Transfer" THEN SeqTransfer(s, c)
    ELSE SeqRollback(s)

(***************************************************************************)
(* The deferred sm.mu.Unlock() runs and the call returns err[p].           *)
(***************************************************************************)
\* an error return that leaves sm.mu locked (Unlock not deferred)
UnlockOnSuccess(p) ==
    /\ pc[p] = "unlock"
    /\ mu' = IF err[p] = NoErr THEN 0 ELSE mu
    /\ last' = [op |-> cur[p].op, err |-> err[p], before |-> pre[p].table]
    /\ pc' = [pc EXCEPT ![p] = "idle"]
    /\ cur' = [cur EXCEPT ![p] = NoCall]
    /\ err' = [err EXCEPT ![p] = NoErr]
    /\ pre' = [pre EXCEPT ![p] = NoPre]
    /\ undo' = IF cur[p].op = "Rollback"
               THEN IF err[p] = NoErr /\ undo # << >>
                    THEN SubSeq(undo, 1, Len(undo) - 1) ELSE undo
               ELSE Append(undo, pre[p].table)
    /\ seq' = SeqRun(seq, cur[p]).state
    /\ UNCHANGED << heap, accounts, history, serial, order, net, rolled >>

Unlock(p) ==
    /\ pc[p] = "unlock"
    /\ mu' = 0
    /\ last' = [op |-> cur[p].op, err |-> err[p], before |-> pre[p].table]
    /\ pc' = [pc EXCEPT ![p] = "idle"]
    /\ cur' = [cur EXCEPT ![p] = NoCall]
    /\ err' = [err EXCEPT ![p] = NoErr]
    /\ pre' = [pre EXCEPT ![p] = NoPre]
    /\ undo' = IF cur[p].op = "Rollback"
               THEN IF err[p] = NoErr /\ undo # << >>
                    THEN SubSeq(undo, 1, Len(undo) - 1) ELSE undo
               ELSE Append(undo, pre[p].table)
    /\ seq' = SeqRun(seq, cur[p]).state
    /\ UNCHANGED << heap, accounts, history, serial, order, net, rolled >>

\* the steps of a call between Lock and the return
Body(p) ==
    \/ saveState(p)
    \/ DepositCheck(p)
    \/ DepositAdd(p)
    \/ WithdrawCheck(p)
    \/ WithdrawSub(p)
    \/ TransferCheck(p)
    \/ TransferDebit(p)
    \/ TransferCredit(p)
    \/ Rollback(p)
    \/ Unlock(p)

(***************************************************************************)
(* Spec: NumProcs goroutines issue up to MaxOps calls, any operation with  *)
(* any arguments of Calls, in any interleaving.                            *)
(***************************************************************************)
Next ==
    \E p \in Procs :
        \/ Call(p)
        \/ CallerLock(p)
        \/ Body(p)

Spec == Init /\ [][Next]_vars

(***************************************************************************)
(* ScenarioSpec: the table test of main_test.go.  Each action of Script    *)
(* runs in a goroutine of its own; after wg.Wait() the main goroutine      *)
(* calls Rollback repeatedly, as TestStateMachineRollback does.            *)
(***************************************************************************)
ScenarioInit == InitWith(ScenarioAccounts, Workers \cup {MainProc})

WorkersDone == \A w \in Workers : w \in Range(order) /\ pc[w] = "idle"

WorkerCall(w) ==
    /\ w \notin Range(order)
    /\ Invoke(w)

WorkerLock(w) ==
    /\ Lock(w, Script[w])
    /\ order' = Append(order, w)

MainLock ==
    /\ Lock(MainProc, RollbackCall)
    /\ UNCHANGED order

MainRollback ==
    /\ WorkersDone
    /\ serial < Len(Script) + MaxRollbacks
    /\ Invoke(MainProc)

ScenarioNext ==
    \/ \E w \in Workers : WorkerCall(w)
    \/ \E w \in Workers : WorkerLock(w)
    \/ MainRollback
    \/ MainLock
    \/ \E p \in Procs : Body(p)

ScenarioSpec == ScenarioInit /\ [][ScenarioNext]_vars

(***************************************************************************)
(* FairSpec: the callers of Spec under the scheduling Go provides.  A      *)
(* runnable goroutine is eventually scheduled (weak fairness of the steps  *)
(* of a call), and sync.Mutex hands the lock to a goroutine that keeps     *)
(* waiting for it (starvation mode), which is strong fairness of Lock.     *)
(* The calls are those of LiveCalls: between them they take every exit     *)
(* path of the four operations.                                            *)
(***************************************************************************)
LiveCalls ==
    { DepositCall("acc1", 700), DepositCall("invalid", 700),
      WithdrawCall("acc2", 700), WithdrawCall("invalid", 700),
      TransferCall("acc1", "acc2", 700), TransferCall("invalid", "acc1", 700),
      TransferCall("acc1", "invalid", 700), RollbackCall }

LiveLock(p) ==
    /\ \E c \in LiveCalls : Lock(p, c)
    /\ UNCHANGED order

LiveNext ==
    \E p \in Procs :
        \/ Call(p)
        \/ LiveLock(p)
        \/ Body(p)

FairSpec ==
    /\ Init
    /\ [][LiveNext]_vars
    /\ \A p \in 1..NumProcs : WF_vars(Body(p)) /\ SF_vars(LiveLock(p))

(***************************************************************************)
(* Vocabulary of the properties.                                           *)
(***************************************************************************)
Mutating == {"Deposit", "Withdraw", "Transfer"}
\* p is between acquiring and releasing sm.mu
InCritical(p) == pc[p] \notin {"idle", "lock"}
\* p's call has run to its return and only the deferred Unlock remains
Returning(p) == pc[p] = "unlock"
\* no call is in progress
Quiescent == \A p \in Procs : ~InCritical(p)

RECURSIVE SumOver(_, _)
SumOver(m, keys) ==
    IF keys = {} THEN 0
    ELSE LET k == CHOOSE x \in keys : TRUE IN m[k] + SumOver(m, keys \ {k})
\* the sum of all balances of a table, as a mathematical integer
Total(m) == SumOver(m, DOMAIN m)

(***************************************************************************)
(* C1  Atomicity of transfer.  While a Transfer has debited the sender and *)
(* not yet credited the receiver, the transferring process holds sm.mu and *)
(* no other process is between Lock and Unlock: no other operation reads   *)
(* the table, and no saveState copies it into history, in that state.      *)
(***************************************************************************)
TransferAtomic ==
    \A p \in Procs :
        pc[p] = "credit" =>
            /\ mu = p
            /\ \A q \in Procs \ {p} : ~InCritical(q)

\* a debit is in the table, its credit is not, and another caller is blocked
TransferAtomicWitness ==
    \E p \in Procs :
        /\ pc[p] = "credit"
        /\ cur[p].id # cur[p].to
        /\ Table[cur[p].id] # pre[p].table[cur[p].id]
        /\ Table[cur[p].to] = pre[p].table[cur[p].to]
        /\ \E q \in Procs \ {p} : pc[q] = "lock"

(***************************************************************************)
(* C2  Rollback inverse law.  When a Rollback has run its body and the     *)
(* call that returned just before it acquired sm.mu was a Deposit,         *)
(* Withdraw or Transfer that succeeded, the Rollback succeeds and the      *)
(* table equals the table from before that call.                           *)
(***************************************************************************)
RollbackInverse ==
    \A p \in Procs :
        (Returning(p) /\ cur[p].op = "Rollback" /\ last.op \in Mutating /\ last.err = NoErr)
            => (err[p] = NoErr /\ Table = last.before)

\* a Rollback has undone a successful call that had changed the table
RollbackInverseWitness ==
    \E p \in Procs :
        /\ Returning(p) /\ cur[p].op = "Rollback"
        /\ last.op \in Mutating /\ last.err = NoErr
        /\ pre[p].table # last.before
        /\ Table = last.before

(***************************************************************************)
(* C3  The concrete scenario, with the four calls serialized in the order  *)
(* of Script.  As claimed: two Rollbacks after the four calls restore the  *)
(* initial table.                                                          *)
(***************************************************************************)
ScriptOrder == order = << 1, 2, 3, 4 >>
\* the table test's expectedAccounts
ScenarioResult == ("acc1" :> 1050) @@ ("acc2" :> 400) @@ ("acc3" :> 450)
\* the table after Deposit(acc1,200) and Withdraw(acc2,100)
BeforeTransfer == ("acc1" :> 1200) @@ ("acc2" :> 400) @@ ("acc3" :> 300)
\* the script ran in order and the main goroutine has completed n Rollbacks
AfterRollbacks(n) ==
    /\ ScriptOrder
    /\ WorkersDone
    /\ serial = Len(Script) + n
    /\ pc[MainProc] \in {"idle", "lock"}

ScenarioTwoRollbacks == AfterRollbacks(2) => Table = ScenarioAccounts

(***************************************************************************)
(* C3, amended.  After the four calls in order the table is                *)
(* {1050, 400, 450} and the last call failed with insufficient balance;    *)
(* two Rollbacks restore {1200, 400, 300}, the table before the Transfer   *)
(* (the failed Withdraw pushed a snapshot too); four Rollbacks restore the *)
(* initial table.                                                          *)
(***************************************************************************)
ScenarioRollbacks ==
    /\ AfterRollbacks(0) => (Table = ScenarioResult /\ last.err = ErrWithdrawBalance)
    /\ AfterRollbacks(2) => (Table = BeforeTransfer /\ last.err = NoErr)
    /\ AfterRollbacks(4) => (Table = ScenarioAccounts /\ last.err = NoErr /\ history = << >>)

ScenarioRollbacksWitness ==
    /\ AfterRollbacks(2)
    /\ last.op = "Rollback"
    /\ Table = BeforeTransfer
    /\ Len(history) = 2

(***************************************************************************)
(* C4  Snapshot before validation.  A Deposit, Withdraw or Transfer that   *)
(* fails validation leaves the table as it was and history one snapshot    *)
(* longer, that snapshot being the pre-call table; a Rollback that runs    *)
(* right after the failed call succeeds, takes that snapshot out and       *)
(* leaves the pre-call table.                                              *)
(***************************************************************************)
FailedCallSnapshot ==
    \A p \in Procs :
        /\ (Returning(p) /\ cur[p].op \in Mutating /\ err[p] # NoErr)
              => /\ Table = pre[p].table
                 /\ Len(history) = pre[p].hlen + 1
                 /\ heap[history[Len(history)]] = pre[p].table
        /\ (Returning(p) /\ cur[p].op = "Rollback" /\ last.op \in Mutating /\ last.err # NoErr)
              => /\ err[p] = NoErr
                 /\ Table = last.before
                 /\ Len(history) = pre[p].hlen - 1

\* a Rollback has run right after a Withdraw that failed for insufficient balance
FailedCallSnapshotWitness ==
    \E p \in Procs :
        /\ Returning(p) /\ cur[p].op = "Rollback"
        /\ last.op = "Withdraw" /\ last.err = ErrWithdrawBalance
        /\ err[p] = NoErr
        /\ Table = last.before

(***************************************************************************)
(* C5  History exhaustion.  A Rollback that acquires sm.mu while history   *)
(* is empty returns the nothing-to-rollback error and leaves the table and *)
(* history as they were.                                                   *)
(***************************************************************************)
EmptyHistoryRollback ==
    \A p \in Procs :
        (Returning(p) /\ cur[p].op = "Rollback" /\ pre[p].hlen = 0)
            => /\ err[p] = ErrNothing
               /\ Table = pre[p].table
               /\ history = << >>

\* a Rollback fails right after a successful Rollback used up the last snapshot
EmptyHistoryRollbackWitness ==
    \E p \in Procs :
        /\ Returning(p) /\ cur[p].op = "Rollback" /\ pre[p].hlen = 0
        /\ last.op = "Rollback" /\ last.err = NoErr
        /\ err[p] = ErrNothing

(***************************************************************************)
(* C6  Unknown-account rejection.  A Deposit or Withdraw that names an     *)
(* identifier absent from the initial table, or a Transfer whose sender or *)
(* receiver is absent, never reaches a map write, leaves the table (its    *)
(* key set included) as it was, and returns an invalid-account error.      *)
(***************************************************************************)
Known == DOMAIN RollbackTestAccounts
NamesUnknown(c) ==
    /\ c.op \in Mutating
    /\ \/ c.id \notin Known
       \/ c.op = "Transfer" /\ c.to \notin Known

UnknownAccountRejected ==
    \A p \in Procs :
        (InCritical(p) /\ NamesUnknown(cur[p]))
            => /\ pc[p] \notin {"apply", "credit"}
               /\ Table = pre[p].table
               /\ Returning(p) =>
                     err[p] \in {ErrDepositAccount, ErrWithdrawAccount, ErrSender, ErrReceiver}

\* a Transfer from a valid sender to an unknown receiver is about to return its error
UnknownAccountRejectedWitness ==
    \E p \in Procs :
        /\ Returning(p)
        /\ cur[p] = TransferCall("acc1", "invalid", 700)
        /\ err[p] = ErrReceiver
        /\ Table["acc1"] = pre[p].table["acc1"]

(***************************************************************************)
(* C7  Non-negativity of debits.  A Withdraw or Transfer that returns nil  *)
(* leaves the source account's balance non-negative.                       *)
(***************************************************************************)
DebitNonNegative ==
    \A p \in Procs :
        (Returning(p) /\ cur[p].op \in {"Withdraw", "Transfer"} /\ err[p] = NoErr)
            => Table[cur[p].id] >= 0

(***************************************************************************)
(* C8  Balances never go negative.  Whenever no call is in progress, every *)
(* balance of the live table is non-negative.                              *)
(***************************************************************************)
BalancesNonNegative ==
    Quiescent => \A k \in DOMAIN Table : Table[k] >= 0

(***************************************************************************)
(* C9  Conservation.  As long as no Rollback has run, whenever no call is  *)
(* in progress the sum of all balances equals the initial sum plus the     *)
(* amounts of the successful Deposits minus those of the successful        *)
(* Withdraws.                                                              *)
(***************************************************************************)
Conservation ==
    (Quiescent /\ ~rolled) => Total(Table) = Total(RollbackTestAccounts) + net

(***************************************************************************)
(* C10  Interleaving independence of the table test.  In every order of    *)
(* acquiring sm.mu the Deposit, the first Withdraw and the Transfer return *)
(* nil, Withdraw(acc3,500) returns the insufficient-balance error, and     *)
(* once the four goroutines are done the table is {1050, 400, 450}.        *)
(***************************************************************************)
ScenarioOutcome ==
    /\ \A w \in Workers :
          Returning(w) => err[w] = (IF w = 4 THEN ErrWithdrawBalance ELSE NoErr)
    /\ (WorkersDone /\ serial = Len(Script)) => Table = ScenarioResult

\* the four calls ran in the reverse of the script's order
ScenarioOutcomeWitness ==
    /\ WorkersDone
    /\ serial = Len(Script)
    /\ order = << 4, 3, 2, 1 >>
    /\ Table = ScenarioResult

(***************************************************************************)
(* C11  LIFO undo.  After the n = 4 calls of Script, run in any order with *)
(* no Rollback in between, the k-th consecutive Rollback (k = 1..n)        *)
(* returns nil and leaves the table that existed just before the           *)
(* (n-k+1)-th call; after the n-th the table is the initial table and      *)
(* history is empty.  (undo holds the pre-call tables in call order, and   *)
(* loses its last entry when a successful Rollback returns.)               *)
(***************************************************************************)
LifoUndo ==
    /\ \A k \in 1..Len(Script) :
          (Returning(MainProc) /\ serial = Len(Script) + k)
              => /\ err[MainProc] = NoErr
                 /\ Len(undo) = Len(Script) - k + 1
                 /\ Table = undo[Len(Script) - k + 1]
                 /\ Len(history) = Len(Script) - k
    /\ (WorkersDone /\ Quiescent /\ serial = 2 * Len(Script))
          => (Table = ScenarioAccounts /\ history = << >>)

\* the third Rollback has restored the table from before the second call,
\* the calls having run in another order than the script's
LifoUndoWitness ==
    /\ Returning(MainProc)
    /\ serial = Len(Script) + 3
    /\ ~ScriptOrder
    /\ Table = undo[2]
    /\ Table # ScenarioAccounts
    /\ Table # pre[MainProc].table

(***************************************************************************)
(* C12  Serialization.  At most one process is between Lock and Unlock and *)
(* it is the holder of sm.mu; only a step of the holder changes the maps,  *)
(* sm.accounts or sm.history; every call returns the error, and leaves the *)
(* table and the history, that running the calls one at a time in guard    *)
(* order gives.                                                            *)
(***************************************************************************)
\* the snapshots of history, by value
HistoryTables == [i \in 1..Len(history) |-> heap[history[i]]]

SerializedState ==
    /\ Cardinality({p \in Procs : InCritical(p)}) <= 1
    /\ \A p \in Procs : InCritical(p) => mu = p
    /\ \A p \in Procs :
          Returning(p) =>
              LET r == SeqRun(seq, cur[p]) IN
              /\ err[p] = r.err
              /\ Table = r.state.table
              /\ HistoryTables = r.state.hist
    /\ Quiescent => (Table = seq.table /\ HistoryTables = seq.hist)

HolderStep ==
    (heap' # heap \/ accounts' # accounts \/ history' # history)
        => (mu # 0 /\ pc'[mu] # pc[mu])

Serialization == []SerializedState /\ [][HolderStep]_vars

\* a successful Transfer is about to return after an earlier call, with another caller blocked
SerializationWitness ==
    \E p \in Procs :
        /\ Returning(p) /\ cur[p].op = "Transfer" /\ err[p] = NoErr
        /\ Len(seq.hist) >= 1
        /\ Table # seq.table
        /\ \E q \in Procs \ {p} : pc[q] = "lock"

(***************************************************************************)
(* C13  Guard release and progress.  sm.mu is held only by a process that  *)
(* is between Lock and Unlock, so it is free whenever no call is in        *)
(* progress, whatever the calls returned; and under FairSpec every call    *)
(* blocked on Lock eventually returns.                                     *)
(***************************************************************************)
GuardReleased ==
    /\ mu # 0 => InCritical(mu)
    /\ Quiescent => mu = 0

GuardProgress ==
    /\ []GuardReleased
    /\ \A p \in 1..NumProcs : (pc[p] = "lock") ~> (pc[p] = "idle")

\* after a call failed, a later call has acquired the guard and run to its return
GuardProgressWitness ==
    \E p \in Procs :
        /\ Returning(p)
        /\ last.err # NoErr
        /\ mu = p

(***************************************************************************)
(* C14  Fixed key set.  The live table and every snapshot in history have  *)
(* exactly the keys present at construction.                               *)
(***************************************************************************)
KeysFixed ==
    /\ DOMAIN Table = Known
    /\ \A i \in 1..Len(history) : DOMAIN heap[history[i]] = Known

\* a Deposit to an unknown identifier has run after a Rollback, a snapshot being in history
KeysFixedWitness ==
    \E p \in Procs :
        /\ Returning(p)
        /\ cur[p].op = "Deposit" /\ cur[p].id = "invalid"
        /\ rolled
        /\ Len(history) >= 1

(***************************************************************************)
(* C15  Transfer validation order.  An unknown sender yields the sender    *)
(* error whatever the receiver is; a known sender with an unknown receiver *)
(* yields the receiver error whatever the balance is; only then an         *)
(* insufficient balance yields the balance error.                          *)
(***************************************************************************)
TransferOrder ==
    \A p \in Procs :
        (Returning(p) /\ cur[p].op = "Transfer") =>
            LET m == pre[p].table
                c == cur[p]
            IN  err[p] = IF c.id \notin DOMAIN m THEN ErrSender
                         ELSE IF c.to \notin DOMAIN m THEN ErrReceiver
                         ELSE IF m[c.id] < c.amount THEN ErrTransferBalance
                         ELSE NoErr

\* sender known with too small a balance, receiver unknown: the receiver error
TransferOrderWitness ==
    \E p \in Procs :
        /\ Returning(p)
        /\ cur[p] = TransferCall("acc2", "invalid", 700)
        /\ pre[p].table["acc2"] < 700
        /\ err[p] = ErrReceiver

(***************************************************************************)
(* C16  Snapshot independence.  The live map is no element of history and  *)
(* no map occurs twice in history; and each snapshot still holds the table *)
(* it was taken of, whatever was deposited, withdrawn or transferred       *)
(* since.                                                                  *)
(***************************************************************************)
SnapshotsIndependent ==
    /\ accounts \notin Range(history)
    /\ \A i, j \in 1..Len(history) : i # j => history[i] # history[j]
    /\ \A i \in 1..Len(history) : i <= Len(undo) => heap[history[i]] = undo[i]

\* a Rollback installed a popped snapshot as the live map, a later Deposit
\* has written to that map, and the snapshot in history is as it was taken
SnapshotsIndependentWitness ==
    \E p \in Procs :
        /\ Returning(p) /\ cur[p].op = "Deposit" /\ err[p] = NoErr
        /\ last.op = "Rollback" /\ last.err = NoErr
        /\ Len(history) = 1
        /\ heap[history[1]] = pre[p].table
        /\ Table # heap[history[1]]

(***************************************************************************)
(* C17  History depth accounting.  A Deposit, Withdraw or Transfer returns *)
(* with history one longer than it found it, failed or not; a successful   *)
(* Rollback with history one shorter; a failed Rollback with history as    *)
(* long as before.  When no call is in progress the length is the number   *)
(* of returned mutating calls minus that of successful Rollbacks.          *)
(***************************************************************************)
HistoryDepth ==
    /\ \A p \in Procs :
          Returning(p) =>
              Len(history) = pre[p].hlen +
                  (IF cur[p].op \in Mutating THEN 1
                   ELSE IF err[p] = NoErr THEN -1 ELSE 0)
    /\ Quiescent => Len(history) = Len(undo)

\* two mutating calls, one of them failed, and one Rollback have returned
HistoryDepthWitness ==
    /\ Quiescent
    /\ serial = 3
    /\ last.op = "Rollback" /\ last.err = NoErr
    /\ Len(history) = 1
    /\ Table # RollbackTestAccounts

(***************************************************************************)
(* C18  Self-transfer.  Transfer(id, id, amount) on an existing account    *)
(* returns nil when the balance is at least amount, with every balance     *)
(* unchanged and one snapshot appended, and the insufficient-balance error *)
(* otherwise.                                                              *)
(***************************************************************************)
SelfTransfer ==
    \A p \in Procs :
        (Returning(p) /\ cur[p].op = "Transfer" /\ cur[p].id = cur[p].to /\ cur[p].id \in Known)
            => /\ err[p] = IF pre[p].table[cur[p].id] >= cur[p].amount
                           THEN NoErr ELSE ErrTransferBalance
               /\ Table = pre[p].table
               /\ Len(history) = pre[p].hlen + 1

\* a self-transfer of 700 has succeeded
SelfTransferWitness ==
    \E p \in Procs :
        /\ Returning(p)
        /\ cur[p] = TransferCall("acc1", "acc1", 700)
        /\ err[p] = NoErr
        /\ Table = pre[p].table

(***************************************************************************)
(* C19  The bottom of the undo log is the construction-time table.  Either *)
(* history is empty and the live table is the initial table, or the oldest *)
(* snapshot is the initial table; so a Rollback that fails on an empty     *)
(* history finds the initial balances.                                     *)
(***************************************************************************)
BottomIsInitial ==
    /\ IF history = << >>
       THEN Table = RollbackTestAccounts
       ELSE heap[history[1]] = RollbackTestAccounts
    /\ \A p \in Procs :
          (Returning(p) /\ err[p] = ErrNothing) => Table = RollbackTestAccounts

\* Rollback was repeated until it failed, after a call that had changed the table
BottomIsInitialWitness ==
    \E p \in Procs :
        /\ Returning(p) /\ err[p] = ErrNothing
        /\ last.op = "Rollback" /\ last.err = NoErr
        /\ last.before # RollbackTestAccounts
        /\ Table = RollbackTestAccounts

(***************************************************************************)
(* C20  No arithmetic wraparound.  A Deposit, Withdraw or Transfer that    *)
(* returns nil leaves balances equal to the exact sum or difference of the *)
(* old balance and the amount.                                             *)
(***************************************************************************)
NoWraparound ==
    \A p \in Procs :
        (Returning(p) /\ err[p] = NoErr /\ cur[p].op \in Mutating) =>
            LET m == pre[p].table
                c == cur[p]
            IN  /\ c.op = "Deposit" => Table[c.id] = m[c.id] + c.amount
                /\ c.op = "Withdraw" => Table[c.id] = m[c.id] - c.amount
                /\ (c.op = "Transfer" /\ c.id # c.to) =>
                      /\ Table[c.id] = m[c.id] - c.amount
                      /\ Table[c.to] = m[c.to] + c.amount

====
